---- MODULE Spec2Model ----
(***************************************************************************)
(* A model of server/index.js of smart-property-pms: the role gate         *)
(* (authorize), the entity mapper (toUnit) and the six GET handlers over   *)
(* the in-memory dataset rawData.                                          *)
(*                                                                         *)
(* JavaScript strings are sequences of one-character strings, so that      *)
(* toLowerCase, includes and template strings are computed and not         *)
(* assumed.  An optional JSON field is a record [has, val]: has = FALSE is *)
(* undefined/null.  Numbers are integers; a quotient the code leaves as a  *)
(* fraction is kept as the pair [num, den].                                *)
(***************************************************************************)
EXTENDS Integers, Sequences, FiniteSets, TLC

VARIABLES
    rawData,          \* const rawData = require('./data.json')
    rolePermissions,  \* the own properties of ROLE_PERMISSIONS
    polluted,         \* built-in objects reached through areaMap[area] that
                      \* had totalPrice / count written on them
    pc,               \* position of the request being served
    req,              \* the request: x-role header, path, query
    reqUser,          \* req.user
    handlerRan,       \* the route handler body was entered
    responses         \* responses written for the request, in order

vars == <<rawData, rolePermissions, polluted, pc, req, reqUser, handlerRan, responses>>

(***************************************************************************)
(* Bounds of the model.                                                    *)
(***************************************************************************)
\* longest dataset among the enumerated short datasets
MaxRecords == 2

(***************************************************************************)
(* Strings.                                                                *)
(***************************************************************************)
S_admin == <<"a", "d", "m", "i", "n">>
S_Admin == <<"A", "d", "m", "i", "n">>
S_sales == <<"s", "a", "l", "e", "s">>
S_technician == <<"t", "e", "c", "h", "n", "i", "c", "i", "a", "n">>
S_TECHNICIAN == <<"T", "E", "C", "H", "N", "I", "C", "I", "A", "N">>
S_guest == <<"g", "u", "e", "s", "t">>
S_constructor == <<"c", "o", "n", "s", "t", "r", "u", "c", "t", "o", "r">>
S_Constructor == <<"C", "o", "n", "s", "t", "r", "u", "c", "t", "o", "r">>
S_proto == <<"_", "_", "p", "r", "o", "t", "o", "_", "_">>
S_toString == <<"t", "o", "S", "t", "r", "i", "n", "g">>
S_valueOf == <<"v", "a", "l", "u", "e", "O", "f">>
S_count == <<"c", "o", "u", "n", "t">>
S_totalPrice == <<"t", "o", "t", "a", "l", "P", "r", "i", "c", "e">>
S_Unknown == <<"U", "n", "k", "n", "o", "w", "n">>
S_UnknownProject == <<"U", "n", "k", "n", "o", "w", "n", " ", "P", "r", "o", "j", "e", "c", "t">>
S_UnknownAddress == <<"U", "n", "k", "n", "o", "w", "n", " ", "A", "d", "d", "r", "e", "s", "s">>
S_Reserved == <<"R", "e", "s", "e", "r", "v", "e", "d">>
S_Available == <<"A", "v", "a", "i", "l", "a", "b", "l", "e">>
S_UnitPrefix == <<"U", "N", "I", "T", "-">>
S_ContractPrefix == <<"C", "N", "-">>
S_BuyerPrefix == <<"B", "u", "y", "e", "r", " ">>
S_TaskPrefix == <<"M", "T", "-">>

UpperCase == <<"A", "B", "C", "D", "E", "F", "G", "H", "I", "J", "K", "L", "M",
               "N", "O", "P", "Q", "R", "S", "T", "U", "V", "W", "X", "Y", "Z">>
LowerCase == <<"a", "b", "c", "d", "e", "f", "g", "h", "i", "j", "k", "l", "m",
               "n", "o", "p", "q", "r", "s", "t", "u", "v", "w", "x", "y", "z">>

\* a mapper that leaves every character alone
LowerCharKeepsCase(c) == c

\* String.prototype.toLowerCase on one character
LowerChar(c) ==
    IF \E i \in 1..Len(UpperCase) : UpperCase[i] = c
    THEN LowerCase[CHOOSE i \in 1..Len(UpperCase) : UpperCase[i] = c]
    ELSE c

toLowerCase(s) == [i \in 1..Len(s) |-> LowerChar(s[i])]

\* String.prototype.includes
includes(s, part) ==
    \E k \in 0..(Len(s) - Len(part)) :
        \A i \in 1..Len(part) : s[k + i] = part[i]

DigitChars == <<"0", "1", "2", "3", "4", "5", "6", "7", "8", "9">>

RECURSIVE NumberToString(_)
\* the decimal text of a non-negative integer, as a template string prints it
NumberToString(n) ==
    IF n < 10 THEN <<DigitChars[n + 1]>>
    ELSE Append(NumberToString(n \div 10), DigitChars[(n % 10) + 1])

(***************************************************************************)
(* Optional values.                                                        *)
(***************************************************************************)
NoStr == [has |-> FALSE, val |-> <<>>]
Str(s) == [has |-> TRUE, val |-> s]
\* A number is an integer.  val is its value, which is all there is to a
\* number below 2^31 (limbs is then empty); a larger integer, up to 2^53,
\* has its base-2^14 digits in limbs, lowest first, and val stands at
\* 2^31 - 1, which every comparison of the code with a constant reads right.
NoNum == [has |-> FALSE, val |-> 0, limbs |-> <<>>]
Num(n) == [has |-> TRUE, val |-> n, limbs |-> <<>>]
BigNum(digits) == [has |-> TRUE, val |-> 2147483647, limbs |-> digits]

\* JavaScript truthiness of an optional string / an optional number
TruthyStr(x) == x.has /\ x.val # <<>>
TruthyNum(x) == x.has /\ x.val # 0

\* a || b on optional strings
OrStr(a, b) == IF TruthyStr(a) THEN a ELSE b

(***************************************************************************)
(* Property reads on plain objects.  ROLE_PERMISSIONS and areaMap are      *)
(* object literals, so obj[key] falls back to Object.prototype when key is *)
(* not an own property.                                                    *)
(***************************************************************************)
\* some of the property names Object.prototype defines (all of them hold a
\* function or an object, hence a truthy value that is not an array)
ObjectPrototypeKeys == {S_constructor, S_proto, S_toString, S_valueOf}

\* what obj[key] yields when key is not an own property of obj: "object" for
\* a built-in member, "NaN" for a totalPrice / count left on Object.prototype
\* by an earlier areaMap["__proto__"] update, "undefined" otherwise
InheritedKind(key, pol) ==
    IF key \in ObjectPrototypeKeys THEN "object"
    ELSE IF S_proto \in pol /\ key \in {S_totalPrice, S_count} THEN "NaN"
    ELSE "undefined"

(***************************************************************************)
(* RBAC.                                                                   *)
(***************************************************************************)
\* a table in which sales may also view maintenance
ROLE_PERMISSIONS_SalesMaintenance ==
    (S_admin :> <<"view_overview", "view_sales", "view_maintenance">>)
    @@ (S_sales :> <<"view_overview", "view_sales", "view_maintenance">>)
    @@ (S_technician :> <<"view_overview", "view_maintenance">>)

\* a table in which technician may also view sales
ROLE_PERMISSIONS_TechnicianSales ==
    (S_admin :> <<"view_overview", "view_sales", "view_maintenance">>)
    @@ (S_sales :> <<"view_overview", "view_sales">>)
    @@ (S_technician :> <<"view_overview", "view_sales", "view_maintenance">>)

ROLE_PERMISSIONS ==
    (S_admin :> <<"view_overview", "view_sales", "view_maintenance">>)
    @@ (S_sales :> <<"view_overview", "view_sales">>)
    @@ (S_technician :> <<"view_overview", "view_maintenance">>)

\* Array.prototype.includes on a permission list
includesPermission(permissions, p) ==
    \E i \in 1..Len(permissions) : permissions[i] = p

\* authorize(requiredPermission)(req, res, next) up to its decision:
\*   kind "throw"     permissions.includes is not a function (TypeError)
\*   kind "forbidden" res.status(403).json({message, role})
\*   kind "next"      req.user = {role, permissions}; next()
authorize(requiredPermission, xRole, table, pol) ==
    LET role == toLowerCase(OrStr(xRole, Str(S_sales)).val)
        found == IF role \in DOMAIN table THEN "array" ELSE InheritedKind(role, pol)
        permissions == IF found = "array" THEN table[role] ELSE <<>>
    IN  IF found = "object"
        THEN [kind |-> "throw", role |-> role, permissions |-> <<>>]
        ELSE IF ~includesPermission(permissions, requiredPermission)
        THEN [kind |-> "forbidden", role |-> role, permissions |-> permissions]
        ELSE [kind |-> "next", role |-> role, permissions |-> permissions]

\* a gate that goes on to req.user / next() after having answered 403
GateFallsThrough(out) == out.kind # "throw"

\* whether authorize reaches req.user = ...; next(): only when it neither
\* threw nor returned at the 403
GateContinues(out) == out.kind = "next"

Paths == {"overview", "insights", "properties", "contracts", "tasks", "health"}
ProtectedPaths == Paths \ {"health"}

\* the permission each route passes to authorize
RequiredPermission(path) ==
    CASE path = "overview" -> "view_overview"
      [] path = "insights" -> "view_overview"
      [] path = "properties" -> "view_sales"
      [] path = "contracts" -> "view_sales"
      [] path = "tasks" -> "view_maintenance"

(***************************************************************************)
(* Entity mapper.                                                          *)
(***************************************************************************)
\* item.PROPERTYSQFT ? item.PRICE / item.PROPERTYSQFT : null
PricePerSqft(item) ==
    IF ~TruthyNum(item.PROPERTYSQFT) THEN [kind |-> "null", num |-> 0, den |-> 1]
    ELSE IF ~item.PRICE.has THEN [kind |-> "NaN", num |-> 0, den |-> 1]
    ELSE [kind |-> "num", num |-> item.PRICE.val, den |-> item.PROPERTYSQFT.val]

\* x > n for an optional number x (undefined > n is false)
GreaterThan(x, n) == x.has /\ x.val > n

toUnit(item, index) ==
    [unitId |-> OrStr(item.LISTINGID,
                      Str(S_UnitPrefix \o NumberToString(index + 1))).val,
     projectName |-> OrStr(item.PROJECTNAME,
                           OrStr(item.SUBLOCALITY, Str(S_UnknownProject))).val,
     address |-> OrStr(item.FULLADDRESS,
                       OrStr(item.SUBLOCALITY, Str(S_UnknownAddress))).val,
     subLocality |-> item.SUBLOCALITY,
     price |-> item.PRICE,
     sqft |-> item.PROPERTYSQFT,
     pricePerSqft |-> PricePerSqft(item),
     status |-> OrStr(item.STATUS,
                      IF GreaterThan(item.PRICE, 800000)
                      THEN Str(S_Reserved) ELSE Str(S_Available)).val]

\* arr.map(toUnit)
mapToUnit(items) == [i \in 1..Len(items) |-> toUnit(items[i], i - 1)]

\* arr.slice(0, n)
slice(arr, n) == SubSeq(arr, 1, IF Len(arr) < n THEN Len(arr) ELSE n)

\* the receiver of arr.splice(0, n): the first n elements are removed
ReceiverAfterSplice(arr, n) == SubSeq(arr, n + 1, Len(arr))

\* the receiver of arr.slice(0, n): slice copies and leaves it as it was
ReceiverAfterSlice(arr, n) == arr

\* Math.round(a / b) for b > 0: the nearest integer, halves upwards
RoundDiv(a, b) == (2 * a + b) \div (2 * b)

\* u.price || 0
PriceOrZero(u) == IF TruthyNum(u.price) THEN u.price.val ELSE 0

(***************************************************************************)
(* Responses.                                                              *)
(***************************************************************************)
\* res.json(body) / res.status(code).json(body)
Json(status, body) == [status |-> status, body |-> body]

\* res.status(403).json({ message: 'Forbidden: insufficient permissions', role })
ForbiddenResponse(role) ==
    Json(403, [message |-> "Forbidden: insufficient permissions", role |-> role])

\* what Express answers when a middleware or a handler throws
ServerError == Json(500, "Internal Server Error")

(***************************************************************************)
(* GET /api/dashboard/overview                                             *)
(***************************************************************************)
\* a reducer that skips units whose price is below 1000
SumStepSkipsSmall(sum, u) == IF PriceOrZero(u) < 1000 THEN sum ELSE sum + PriceOrZero(u)

\* (sum, u) => sum + (u.price || 0)
SumStep(sum, u) == sum + PriceOrZero(u)

RECURSIVE reduceTotal(_, _, _, _)
\* units.reduce(SumStep, sum) over units[lo..hi], left to right.  The range
\* is halved, and the left half's result tested, only to have TLC evaluate
\* the left half first and keep its evaluation shallow.
reduceTotal(units, lo, hi, sum) ==
    IF lo > hi THEN sum
    ELSE IF lo = hi THEN SumStep(sum, units[lo])
    ELSE LET mid == (lo + hi) \div 2
             left == reduceTotal(units, lo, mid, sum)
         IN  IF left \in Int THEN reduceTotal(units, mid + 1, hi, left) ELSE left

\* the first own entry of the area map with this name, 0 if there is none
OwnIndex(entries, name) ==
    IF \E i \in 1..Len(entries) : entries[i].name = name
    THEN CHOOSE i \in 1..Len(entries) : entries[i].name = name
    ELSE 0

\* one round of units.forEach: am.entries are the own properties of areaMap
\* in insertion order, am.pol the built-in objects written so far
areaMapAdd(am, u) ==
    LET area == OrStr(u.subLocality, Str(S_Unknown)).val
        i == OwnIndex(am.entries, area)
    IN  IF i # 0
        THEN [am EXCEPT !.entries[i].totalPrice = @ + PriceOrZero(u),
                        !.entries[i].count = @ + 1]
        ELSE IF InheritedKind(area, am.pol) = "object"
        THEN \* areaMap[area] is a built-in: truthy, so no entry is created and
             \* totalPrice / count are written on the built-in itself
             [am EXCEPT !.pol = @ \cup {area}]
        ELSE [am EXCEPT !.entries =
                Append(@, [name |-> area, totalPrice |-> PriceOrZero(u), count |-> 1])]

RECURSIVE buildAreaMap(_, _, _, _)
\* units.forEach(...) over units[lo..hi], left to right, starting from am
\* (halved, and the left half tested, as in reduceTotal)
buildAreaMap(units, lo, hi, am) ==
    IF lo > hi THEN am
    ELSE IF lo = hi THEN areaMapAdd(am, units[lo])
    ELSE LET mid == (lo + hi) \div 2
             left == buildAreaMap(units, lo, mid, am)
         IN  IF Len(left.entries) >= 0
             THEN buildAreaMap(units, mid + 1, hi, left) ELSE left

\* (item) => ({ name, avgPrice: item.count ? Math.round(totalPrice / count) : 0, count })
areaItem(item) ==
    [name |-> item.name,
     avgPrice |-> IF item.count # 0 THEN RoundDiv(item.totalPrice, item.count) ELSE 0,
     count |-> item.count]

\* a comparator that orders by count ascending
countBeforeAscending(a, b) == a.count < b.count

\* (a, b) => b.count - a.count is negative: a goes before b
countBefore(a, b) == a.count > b.count

\* where a stable sort puts e among the already sorted elements
insertSorted(sorted, e) ==
    LET later == {i \in 1..Len(sorted) : countBefore(e, sorted[i])}
        k == IF later = {} THEN Len(sorted) + 1
             ELSE CHOOSE i \in later : \A j \in later : i <= j
    IN  SubSeq(sorted, 1, k - 1) \o <<e>> \o SubSeq(sorted, k, Len(sorted))

RECURSIVE sortByCount(_, _)
\* Array.prototype.sort (stable) of the first n elements
sortByCount(arr, n) ==
    IF n = 0 THEN <<>> ELSE insertSorted(sortByCount(arr, n - 1), arr[n])

\* Object.values(areaMap).map(...).sort(...).slice(0, 10)
byAreaOf(entries) ==
    LET mapped == [i \in 1..Len(entries) |-> areaItem(entries[i])]
    IN  slice(sortByCount(mapped, Len(mapped)), 10)

ZeroOverview ==
    [totalValue |-> 0, unitCount |-> 0, avgPrice |-> [num |-> 0, den |-> 1],
     byArea |-> <<>>]

\* the overview handler: the response and the built-in objects written
overview(data, pol) ==
    IF data.kind # "array" \/ Len(data.items) = 0
    THEN [response |-> Json(200, ZeroOverview), pol |-> pol]
    ELSE
      LET units == mapToUnit(data.items)
          totalValue == reduceTotal(units, 1, Len(units), 0)
          unitCount == Len(units)
          avgPrice == IF unitCount > 0 THEN [num |-> totalValue, den |-> unitCount]
                      ELSE [num |-> 0, den |-> 1]
          areaMap == buildAreaMap(units, 1, Len(units), [entries |-> <<>>, pol |-> pol])
      IN  [response |-> Json(200, [totalValue |-> totalValue, unitCount |-> unitCount,
                                   avgPrice |-> avgPrice,
                                   byArea |-> byAreaOf(areaMap.entries)]),
           pol |-> areaMap.pol]

(***************************************************************************)
(* GET /api/property-insights                                              *)
(***************************************************************************)
insight(item, index) ==
    [unit |-> toUnit(item, index), original |-> item,
     isPremium |-> GreaterThan(item.PRICE, 1000000)]

propertyInsights(data) ==
    IF data.kind # "array" THEN ServerError   \* rawData.map is not a function
    ELSE Json(200, [i \in 1..Len(data.items) |-> insight(data.items[i], i - 1)])

(***************************************************************************)
(* GET /api/properties                                                     *)
(***************************************************************************)
\* a status test that compares without lower-casing the unit's status
statusMatchesExact(u, status) == u.status = toLowerCase(status)

\* String(u.status).toLowerCase() === String(status).toLowerCase()
statusMatches(u, status) == toLowerCase(u.status) = toLowerCase(status)

\* u.subLocality && u.subLocality.toLowerCase().includes(area.toLowerCase())
areaMatches(u, area) ==
    TruthyStr(u.subLocality)
    /\ includes(toLowerCase(u.subLocality.val), toLowerCase(area))

properties(data, query) ==
    IF data.kind # "array" THEN ServerError   \* rawData.map is not a function
    ELSE
      LET units == mapToUnit(data.items)
          byStatus == IF TruthyStr(query.status)
                      THEN SelectSeq(units, LAMBDA u : statusMatches(u, query.status.val))
                      ELSE units
          byArea == IF TruthyStr(query.area)
                    THEN SelectSeq(byStatus, LAMBDA u : areaMatches(u, query.area.val))
                    ELSE byStatus
      IN  Json(200, slice(byArea, 200))

(***************************************************************************)
(* GET /api/sales/contracts                                                *)
(***************************************************************************)
\* unit.price * 0.2 and unit.price * 0.3 are IEEE 754 double products and
\* Math.round works on the double.  Integers of up to 112 bits are kept as
\* eight base-2^14 digits, lowest first, so that every intermediate value
\* fits a 32-bit integer.
Base == 2 ^ 14

\* the digits of a non-negative integer below 2^31
Digits(n) ==
    [i \in 1..8 |-> CASE i = 1 -> n % Base
                      [] i = 2 -> (n \div Base) % Base
                      [] i = 3 -> n \div (Base * Base)
                      [] OTHER -> 0]

\* the digits of a non-negative number
DigitsOf(x) == IF x.limbs # <<>> THEN x.limbs ELSE Digits(x.val)

\* the number with these digits
FromDigits(d) ==
    IF d[3] < 8 /\ \A i \in 4..8 : d[i] = 0
    THEN Num(d[1] + Base * d[2] + Base * Base * d[3])
    ELSE BigNum(d)

\* the double 0.2 is 0x1999999999999A * 2^-55
Double02 == [mantissa |-> <<6554, 9830, 6553, 1638, 0, 0, 0, 0>>, scale |-> 55]
\* the double 0.3 is 0x13333333333333 * 2^-54
Double03 == [mantissa |-> <<13107, 3276, 13107, 1228, 0, 0, 0, 0>>, scale |-> 54]

\* the sum of the digit products that land on digit k, for a and b below 2^56
Column(a, b, k) ==
    (IF k \in 1..4 THEN a[1] * b[k] ELSE 0)
    + (IF k - 1 \in 1..4 THEN a[2] * b[k - 1] ELSE 0)
    + (IF k - 2 \in 1..4 THEN a[3] * b[k - 2] ELSE 0)
    + (IF k - 3 \in 1..4 THEN a[4] * b[k - 3] ELSE 0)

RECURSIVE MulCarry(_, _, _)
\* digit k of the product before reduction: its column and the carry into it
MulCarry(a, b, k) ==
    Column(a, b, k) + (IF k = 1 THEN 0 ELSE MulCarry(a, b, k - 1) \div Base)

\* the exact product of two integers below 2^56
BigMul(a, b) == [k \in 1..8 |-> MulCarry(a, b, k) % Base]

RECURSIVE AddCarry(_, _, _)
AddCarry(a, b, k) ==
    a[k] + b[k] + (IF k = 1 THEN 0 ELSE AddCarry(a, b, k - 1) \div Base)

\* the sum of two integers (below 2^112)
BigAdd(a, b) == [k \in 1..8 |-> AddCarry(a, b, k) % Base]

\* 2^k
BigPow2(k) == [i \in 1..8 |-> IF i = (k \div 14) + 1 THEN 2 ^ (k % 14) ELSE 0]

\* the number of significant bits
BitLength(n) ==
    LET used == {i \in 1..8 : n[i] # 0}
    IN  IF used = {} THEN 0
        ELSE LET h == CHOOSE i \in used : \A j \in used : j <= i
             IN  14 * (h - 1)
                 + (CHOOSE b \in 1..14 : 2 ^ (b - 1) <= n[h] /\ n[h] < 2 ^ b)

\* bit k (from 0) is set
TestBit(n, k) == (n[(k \div 14) + 1] \div (2 ^ (k % 14))) % 2 = 1

\* n with its lowest s bits dropped
ShiftRight(n, s) ==
    LET a == s \div 14
        b == s % 14
        digit(i) == IF i + a <= 8 THEN n[i + a] ELSE 0
    IN  [i \in 1..8 |->
            (digit(i) \div (2 ^ b)) + (digit(i + 1) % (2 ^ b)) * (2 ^ (14 - b))]

\* the double nearest to the integer n, ties to the even mantissa: q * 2^s
\* with q of at most 53 bits (or 2^53)
NearestDouble(n) ==
    LET len == BitLength(n)
        s == IF len > 53 THEN len - 53 ELSE 0
        kept == ShiftRight(n, s)
        up == /\ s > 0
              /\ TestBit(n, s - 1)
              /\ \/ \E j \in 0..(s - 2) : TestBit(n, j)
                 \/ TestBit(kept, 0)
    IN  [q |-> IF up THEN BigAdd(kept, BigPow2(0)) ELSE kept, s |-> s]

\* price * factor, a double: q / 2^t.  For a price below 2^53 the product is
\* below the price, so t >= 1.
Times(price, factor) ==
    LET d == NearestDouble(BigMul(DigitsOf(price), factor.mantissa))
    IN  [q |-> d.q, t |-> factor.scale - d.s]

\* Math.floor of the double q / 2^t
MathFloor(d) == ShiftRight(d.q, d.t)

\* Math.round of the double q / 2^t: floor(x + 0.5), computed exactly
MathRound(d) == ShiftRight(BigAdd(d.q, BigPow2(d.t - 1)), d.t)

\* Math.round(price * factor); NaN (no value) when price is undefined
RoundShare(price, factor) ==
    IF ~price.has THEN NoNum
    ELSE FromDigits(MathRound(Times(price, factor)))

installment(no, days, amount) ==
    [installmentNo |-> no, dueInDays |-> days, amount |-> amount, status |-> "Pending"]

\* dates are kept as whole days relative to Date.now()
contract(unit, index) ==
    [contractId |-> S_ContractPrefix \o NumberToString(index + 1),
     unitId |-> unit.unitId,
     buyerName |-> S_BuyerPrefix \o NumberToString(index + 1),
     bookingInDays |-> 0 - index,
     totalPrice |-> unit.price,
     downPayment |-> RoundShare(unit.price, Double02),
     installmentSchedule |->
        <<installment(1, 30, RoundShare(unit.price, Double02)),
          installment(2, 60, RoundShare(unit.price, Double03)),
          installment(3, 90, RoundShare(unit.price, Double03))>>]

contracts(data) ==
    IF data.kind # "array" THEN ServerError   \* rawData.slice is not a function
    ELSE
      LET units == mapToUnit(slice(data.items, 100))
      IN  Json(200, [i \in 1..Len(units) |-> contract(units[i], i - 1)])

(***************************************************************************)
(* GET /api/maintenance/tasks                                              *)
(***************************************************************************)
\* unit.pricePerSqft && unit.pricePerSqft > 500
PricePerSqftAbove(r, n) ==
    /\ r.kind = "num"
    /\ \/ r.den > 0 /\ r.num > n * r.den
       \/ r.den < 0 /\ r.num < n * r.den

task(unit, index) ==
    [taskId |-> S_TaskPrefix \o NumberToString(index + 1),
     unitId |-> unit.unitId,
     projectName |-> unit.projectName,
     subLocality |-> unit.subLocality,
     priority |-> IF GreaterThan(unit.price, 900000) THEN "High" ELSE "Normal",
     type |-> IF PricePerSqftAbove(unit.pricePerSqft, 500)
              THEN "Inspection" ELSE "General Repair",
     status |-> IF index % 3 = 0 THEN "In Progress" ELSE "Open",
     scheduledInDays |-> index + 1]

maintenanceTasks(data) ==
    IF data.kind # "array" THEN ServerError   \* rawData.slice is not a function
    ELSE
      LET units == mapToUnit(slice(data.items, 50))
      IN  Json(200, [i \in 1..Len(units) |-> task(units[i], i - 1)])

(***************************************************************************)
(* GET /health                                                             *)
(***************************************************************************)
\* process.uptime() is left out
health == Json(200, [status |-> "ok"])

(***************************************************************************)
(* Datasets: what data.json may hold.                                      *)
(***************************************************************************)
S_Ab == <<"A", "b">>
S_a == <<"a">>
S_b == <<"b">>
S_B == <<"B">>
S_L2 == <<"L", "2">>
S_sold == <<"s", "o", "l", "d">>
S_AVAILABLE == <<"A", "V", "A", "I", "L", "A", "B", "L", "E">>
S_reserved == <<"r", "e", "s", "e", "r", "v", "e", "d">>
S_Tower == <<"T", "o", "w", "e", "r">>
S_Street == <<"1", " ", "S", "t">>

Item(id, project, address, sub, price, sqft, status) ==
    [LISTINGID |-> id, PROJECTNAME |-> project, FULLADDRESS |-> address,
     SUBLOCALITY |-> sub, PRICE |-> price, PROPERTYSQFT |-> sqft, STATUS |-> status]

\* the records the short datasets are made of
Pool ==
    {Item(NoStr, NoStr, NoStr, Str(S_Ab), Num(850000), Num(1000), NoStr),
     Item(Str(S_L2), Str(S_Tower), Str(S_Street), NoStr, NoNum, NoNum, Str(S_sold)),
     Item(NoStr, NoStr, NoStr, Str(S_b), Num(100), Num(0), NoStr),
     Item(NoStr, NoStr, NoStr, Str(S_constructor), Num(1000001), NoNum, Str(S_AVAILABLE)),
     Item(NoStr, NoStr, NoStr, Str(S_proto), Num(301), Num(2), NoStr)}

ArrayData(items) == [kind |-> "array", items |-> items]
\* data.json holding null, or an object that is not an array
NullData == [kind |-> "null", items |-> <<>>]
ObjectData == [kind |-> "object", items |-> <<>>]

ShortDatasets == {ArrayData(s) : s \in UNION {[1..n -> Pool] : n \in 0..MaxRecords}}

\* more records than /api/properties returns, most of them reserved units
\* of one area, every seventh one an available unit of another
LongItem(i) ==
    IF i % 7 = 0
    THEN Item(NoStr, NoStr, NoStr, Str(S_b), Num(100), NoNum, NoStr)
    ELSE Item(NoStr, NoStr, NoStr, Str(S_Ab), Num(850), Num(1), Str(S_Reserved))
LongDataset == ArrayData([i \in 1..(200 + 40) |-> LongItem(i)])

\* one record in each of 10 + 2 areas "a", "b", ...; then two more in the
\* last area and one more in the last but one
AreaItem(name, price) == Item(NoStr, NoStr, NoStr, Str(name), Num(price), NoNum, NoStr)
ManyAreasItems(n) ==
    [i \in 1..n |-> AreaItem(<<LowerCase[i]>>, 10 * i)]
    \o <<AreaItem(<<LowerCase[n]>>, 5), AreaItem(<<LowerCase[n]>>, 6),
         AreaItem(<<LowerCase[n - 1]>>, 7)>>
ManyAreasDataset == ArrayData(ManyAreasItems(10 + 2))

\* ten areas of one record each and an eleventh, "constructor", of three
BuiltinAreaDataset ==
    ArrayData([i \in 1..10 |-> AreaItem(<<LowerCase[i]>>, 10 * i)]
              \o <<AreaItem(S_constructor, 5), AreaItem(S_constructor, 6),
                   AreaItem(S_constructor, 7)>>)

\* units without a sub-locality next to units whose sub-locality is "Unknown"
UnknownDataset ==
    ArrayData(<<Item(NoStr, NoStr, NoStr, NoStr, Num(100), NoNum, NoStr),
                AreaItem(S_Unknown, 200),
                Item(NoStr, NoStr, NoStr, Str(<<>>), Num(300), NoNum, NoStr),
                AreaItem(S_count, 50)>>)

Datasets ==
    ShortDatasets \cup {LongDataset, ManyAreasDataset, BuiltinAreaDataset, UnknownDataset}

\* records for the contract generator: prices from 0 up to the largest
\* integers a double holds exactly (below 2^53), odd and even, with and
\* without a half in their shares; the records have no PROPERTYSQFT
PricedItem(price) == Item(NoStr, NoStr, NoStr, Str(S_Ab), price, NoNum, NoStr)
PricePool ==
    {PricedItem(NoNum),
     PricedItem(Num(0)),
     PricedItem(Num(5)),
     PricedItem(Num(9)),
     PricedItem(Num(850000)),
     \* 2251799813685246 = 2^51 - 2
     PricedItem(BigNum(<<16382, 16383, 16383, 511, 0, 0, 0, 0>>)),
     \* 2251799813685247 = 2^51 - 1
     PricedItem(BigNum(<<16383, 16383, 16383, 511, 0, 0, 0, 0>>)),
     \* 3752999689275422
     PricedItem(BigNum(<<2078, 5449, 5461, 853, 0, 0, 0, 0>>))}

PricedDatasets == {ArrayData(s) : s \in UNION {[1..n -> PricePool] : n \in 0..MaxRecords}}

(***************************************************************************)
(* Requests.                                                               *)
(***************************************************************************)
\* values of the x-role header; NoStr is a request without the header
Headers ==
    {NoStr, Str(<<>>), Str(S_admin), Str(S_Admin), Str(S_sales), Str(S_technician),
     Str(S_TECHNICIAN), Str(S_guest), Str(S_constructor), Str(S_Constructor),
     Str(S_proto), Str(S_count)}

NoQuery == [status |-> NoStr, area |-> NoStr]
Queries ==
    [status : {NoStr, Str(<<>>), Str(S_reserved), Str(S_AVAILABLE)},
     area : {NoStr, Str(<<>>), Str(S_a), Str(S_B)}]

NoRequest == [xRole |-> NoStr, path |-> "none", query |-> NoQuery]
NoUser == [has |-> FALSE, role |-> <<>>, permissions |-> <<>>]

(***************************************************************************)
(* The server.                                                             *)
(***************************************************************************)
Init ==
    /\ rawData \in Datasets
    /\ rolePermissions = ROLE_PERMISSIONS
    /\ polluted = {}
    /\ pc = "idle"
    /\ req = NoRequest
    /\ reqUser = NoUser
    /\ handlerRan = FALSE
    /\ responses = <<>>

\* data.json may also hold something that is not an array
InitAnyData ==
    /\ rawData \in Datasets \cup {NullData, ObjectData}
    /\ rolePermissions = ROLE_PERMISSIONS
    /\ polluted = {}
    /\ pc = "idle"
    /\ req = NoRequest
    /\ reqUser = NoUser
    /\ handlerRan = FALSE
    /\ responses = <<>>

\* a request arrives and is routed: /health has no gate, the query matters
\* to /api/properties alone
Receive(h, path, q) ==
    /\ pc = "idle"
    /\ path = "properties" \/ q = NoQuery
    /\ req' = [xRole |-> h, path |-> path, query |-> q]
    /\ pc' = IF path = "health" THEN "handler" ELSE "gate"
    /\ UNCHANGED <<rawData, rolePermissions, polluted, reqUser, handlerRan, responses>>

\* the authorize middleware of the route
Authorize ==
    /\ pc = "gate"
    /\ LET out == authorize(RequiredPermission(req.path), req.xRole,
                            rolePermissions, polluted)
       IN  /\ responses' =
                IF out.kind = "throw" THEN Append(responses, ServerError)
                ELSE IF out.kind = "forbidden"
                THEN Append(responses, ForbiddenResponse(out.role))
                ELSE responses
           /\ IF GateContinues(out)
              THEN /\ reqUser' = [has |-> TRUE, role |-> out.role,
                                  permissions |-> out.permissions]
                   /\ pc' = "handler"
              ELSE /\ reqUser' = reqUser
                   /\ pc' = "done"
    /\ UNCHANGED <<rawData, rolePermissions, polluted, req, handlerRan>>

Overview ==
    /\ pc = "handler" /\ req.path = "overview"
    /\ LET r == overview(rawData, polluted)
       IN  /\ responses' = Append(responses, r.response)
           /\ polluted' = r.pol
    /\ handlerRan' = TRUE
    /\ pc' = "done"
    /\ UNCHANGED <<rawData, rolePermissions, req, reqUser>>

PropertyInsights ==
    /\ pc = "handler" /\ req.path = "insights"
    /\ responses' = Append(responses, propertyInsights(rawData))
    /\ handlerRan' = TRUE
    /\ pc' = "done"
    /\ UNCHANGED <<rawData, rolePermissions, polluted, req, reqUser>>

Properties ==
    /\ pc = "handler" /\ req.path = "properties"
    /\ responses' = Append(responses, properties(rawData, req.query))
    /\ handlerRan' = TRUE
    /\ pc' = "done"
    /\ UNCHANGED <<rawData, rolePermissions, polluted, req, reqUser>>

Contracts ==
    /\ pc = "handler" /\ req.path = "contracts"
    /\ responses' = Append(responses, contracts(rawData))
    /\ rawData' = [rawData EXCEPT !.items = ReceiverAfterSlice(@, 100)]
    /\ handlerRan' = TRUE
    /\ pc' = "done"
    /\ UNCHANGED <<rolePermissions, polluted, req, reqUser>>

MaintenanceTasks ==
    /\ pc = "handler" /\ req.path = "tasks"
    /\ responses' = Append(responses, maintenanceTasks(rawData))
    /\ rawData' = [rawData EXCEPT !.items = ReceiverAfterSlice(@, 50)]
    /\ handlerRan' = TRUE
    /\ pc' = "done"
    /\ UNCHANGED <<rolePermissions, polluted, req, reqUser>>

Health ==
    /\ pc = "handler" /\ req.path = "health"
    /\ responses' = Append(responses, health)
    /\ handlerRan' = TRUE
    /\ pc' = "done"
    /\ UNCHANGED <<rawData, rolePermissions, polluted, req, reqUser>>

\* the response is out; the server, still listening, takes the next request
Listen ==
    /\ pc = "done"
    /\ pc' = "idle"
    /\ req' = NoRequest
    /\ reqUser' = NoUser
    /\ handlerRan' = FALSE
    /\ responses' = <<>>
    /\ UNCHANGED <<rawData, rolePermissions, polluted>>

Next ==
    \/ \E h \in Headers, path \in Paths, q \in Queries : Receive(h, path, q)
    \/ Authorize
    \/ Overview
    \/ PropertyInsights
    \/ Properties
    \/ Contracts
    \/ MaintenanceTasks
    \/ Health
    \/ Listen

Spec == Init /\ [][Next]_vars

SpecAnyData == InitAnyData /\ [][Next]_vars

\* the server over a dataset of any prices, asked for contracts
InitPriced ==
    /\ rawData \in PricedDatasets
    /\ rolePermissions = ROLE_PERMISSIONS
    /\ polluted = {}
    /\ pc = "idle"
    /\ req = NoRequest
    /\ reqUser = NoUser
    /\ handlerRan = FALSE
    /\ responses = <<>>

NextContracts ==
    \/ \E h \in Headers : Receive(h, "contracts", NoQuery)
    \/ Authorize
    \/ Contracts
    \/ Listen

SpecContracts == InitPriced /\ [][NextContracts]_vars

(***************************************************************************)
(* Vocabulary of the properties, defined without the code's operators.     *)
(***************************************************************************)
\* two characters that are the same letter, in whatever case
SameLetter(c, d) ==
    \/ c = d
    \/ \E i \in 1..Len(UpperCase) : {c, d} = {UpperCase[i], LowerCase[i]}

EqualIgnoringCase(s, t) ==
    Len(s) = Len(t) /\ \A i \in 1..Len(s) : SameLetter(s[i], t[i])

ContainsIgnoringCase(s, part) ==
    \E k \in 0..(Len(s) - Len(part)) :
        \A i \in 1..Len(part) : SameLetter(s[k + i], part[i])

\* the role a header names: "admin", "sales", "technician" or "other"; a
\* request without the header, or with an empty one, counts as "absent"
NamedRole(h) ==
    IF ~h.has \/ h.val = <<>> THEN "absent"
    ELSE IF EqualIgnoringCase(h.val, S_admin) THEN "admin"
    ELSE IF EqualIgnoringCase(h.val, S_sales) THEN "sales"
    ELSE IF EqualIgnoringCase(h.val, S_technician) THEN "technician"
    ELSE "other"

\* the endpoints each role is granted
Granted(role) ==
    CASE role = "admin" -> {"overview", "insights", "properties", "contracts", "tasks"}
      [] role = "sales" -> {"overview", "insights", "properties", "contracts"}
      [] role = "technician" -> {"overview", "insights", "tasks"}

\* a request to a protected endpoint has been answered
Answered == pc = "done" /\ req.path \in ProtectedPaths

\* the request went through the gate and its handler ran
Served(path) == pc = "done" /\ req.path = path /\ reqUser.has /\ handlerRan

OneResponse(status) == Len(responses) = 1 /\ responses[1].status = status

C2_UnknownRoleForbidden ==
    Answered /\ req.xRole.has
             /\ NamedRole(req.xRole) \in {"other", "absent"}
    => /\ OneResponse(403)
       /\ DOMAIN responses[1].body = {"message", "role"}

SameRoleText(h1, h2) ==
    \/ h1.has /\ h2.has /\ EqualIgnoringCase(h1.val, h2.val)
    \/ ~h1.has /\ ~h2.has
    \/ ~h1.has /\ h2 = Str(S_sales)
    \/ ~h2.has /\ h1 = Str(S_sales)

\* the gate's decision as the state shows it
GateDecision ==
    IF reqUser.has THEN [kind |-> "next", role |-> reqUser.role]
    ELSE IF responses # <<>> /\ responses[1].status = 403
    THEN [kind |-> "forbidden", role |-> responses[1].body.role]
    ELSE [kind |-> "throw", role |-> <<>>]

\* the decision a request with header h to the same endpoint gets
DecisionFor(h) ==
    LET out == authorize(RequiredPermission(req.path), h, rolePermissions, polluted)
    IN  [kind |-> out.kind, role |-> IF out.kind = "throw" THEN <<>> ELSE out.role]

C4_CaseInsensitiveDefaultSales ==
    req.path \in ProtectedPaths /\ pc \in {"handler", "done"}
    => \A h \in Headers :
          SameRoleText(req.xRole, h) => GateDecision = DecisionFor(h)

C4_Witness ==
    /\ Answered /\ req.xRole = Str(S_TECHNICIAN) /\ req.path = "properties"
    /\ OneResponse(403) /\ responses[1].body.role = S_technician

(***************************************************************************)
(* C5: within a request to a protected endpoint the gate completes before  *)
(* any handler logic.  A rejected request ends with the single 403         *)
(* response, its handler never runs and nothing is attached to the         *)
(* request; an accepted request has {role, permissions} attached before    *)
(* the handler runs, and the handler produces the single response.  No     *)
(* request gets two responses.                                             *)
(***************************************************************************)
C5_GateBeforeHandler ==
    req.path \in ProtectedPaths
    => /\ Len(responses) <= 1
       /\ pc = "gate" => responses = <<>> /\ ~handlerRan /\ ~reqUser.has
       /\ pc = "handler" => responses = <<>> /\ ~handlerRan /\ reqUser.has
       /\ handlerRan => reqUser.has /\ pc = "done"
       /\ (\E i \in 1..Len(responses) : responses[i].status = 403)
            => /\ ~handlerRan /\ ~reqUser.has /\ pc = "done"
               /\ DOMAIN responses[1].body = {"message", "role"}
       /\ reqUser.has
            => /\ reqUser.role \in DOMAIN ROLE_PERMISSIONS
               /\ reqUser.permissions = ROLE_PERMISSIONS[reqUser.role]
               /\ includesPermission(reqUser.permissions, RequiredPermission(req.path))
       /\ pc = "done" /\ reqUser.has => handlerRan /\ Len(responses) = 1
       /\ pc = "done" => Len(responses) = 1

C5_Witness ==
    /\ Answered /\ OneResponse(403) /\ ~handlerRan /\ ~reqUser.has

(***************************************************************************)
(* C6: when the dataset is empty or not an array, every handler answers an *)
(* authorized request with a successful empty result: the zeroed overview, *)
(* an empty list from the other four.                                      *)
(***************************************************************************)
C6_EmptyOrMalformedTolerated ==
    Answered /\ reqUser.has /\ (rawData.kind # "array" \/ rawData.items = <<>>)
    => /\ OneResponse(200)
       /\ responses[1].body = IF req.path = "overview" THEN ZeroOverview ELSE <<>>

(***************************************************************************)
(* C7: no step changes the raw dataset or the role-permission table, and   *)
(* the response a request ends with is the one its role, path and query    *)
(* determine over that dataset, whatever requests were served before.      *)
(***************************************************************************)
\* the response to request r over data on a server that has served nothing
FreshResponse(r, data) ==
    IF r.path = "health" THEN health
    ELSE LET out == authorize(RequiredPermission(r.path), r.xRole, ROLE_PERMISSIONS, {})
         IN  IF out.kind = "throw" THEN ServerError
             ELSE IF out.kind = "forbidden" THEN ForbiddenResponse(out.role)
             ELSE CASE r.path = "overview" -> overview(data, {}).response
                    [] r.path = "insights" -> propertyInsights(data)
                    [] r.path = "properties" -> properties(data, r.query)
                    [] r.path = "contracts" -> contracts(data)
                    [] r.path = "tasks" -> maintenanceTasks(data)

C7_StaticData ==
    [][/\ rawData' = rawData
       /\ rolePermissions' = rolePermissions
       /\ rolePermissions = ROLE_PERMISSIONS
       /\ pc' = "done" => responses' = <<FreshResponse(req', rawData)>>]_vars

C7_Witness ==
    /\ pc = "done" /\ req.path = "contracts" /\ OneResponse(200)
    /\ polluted # {} /\ responses[1].body # <<>>

(***************************************************************************)
(* C8: the overview of an authorized request has unitCount = the number of *)
(* raw records, totalValue = the sum of their prices with an absent price  *)
(* counted as 0, and avgPrice = totalValue / unitCount when unitCount > 0, *)
(* else 0; over an empty dataset it is {0, 0, 0, []}.                      *)
(***************************************************************************)
RECURSIVE PriceSum(_, _, _)
\* the sum of the prices of items[lo..hi], an absent price counting as 0
PriceSum(items, lo, hi) ==
    IF lo > hi THEN 0
    ELSE IF lo = hi THEN (IF items[lo].PRICE.has THEN items[lo].PRICE.val ELSE 0)
    ELSE PriceSum(items, lo, (lo + hi) \div 2)
         + PriceSum(items, ((lo + hi) \div 2) + 1, hi)

C8_OverviewTotals ==
    Served("overview")
    => LET body == responses[1].body
           n == Len(rawData.items)
           total == PriceSum(rawData.items, 1, n)
       IN  /\ OneResponse(200)
           /\ body.unitCount = n
           /\ body.totalValue = total
           /\ body.avgPrice.den > 0
           /\ body.avgPrice.num * (IF n > 0 THEN n ELSE 1)
                = (IF n > 0 THEN total ELSE 0) * body.avgPrice.den
           /\ n = 0 => /\ body.totalValue = 0 /\ body.unitCount = 0
                       /\ body.avgPrice.num = 0 /\ body.byArea = <<>>

C8_Witness ==
    /\ Served("overview") /\ OneResponse(200)
    /\ responses[1].body.unitCount >= 2
    /\ responses[1].body.totalValue > 0
    /\ \E i \in 1..Len(rawData.items) : ~rawData.items[i].PRICE.has

(***************************************************************************)
(* C9: for every dataset the overview's byArea has at most 10 entries, is  *)
(* sorted by count in non-increasing order, has pairwise distinct names,   *)
(* each entry's count is the number of units of that sub-locality (units   *)
(* without one counting under 'Unknown'), and with more than 10 distinct   *)
(* areas no omitted area has a larger count than a listed one.             *)
(***************************************************************************)
\* the area a raw record belongs to
AreaOf(item) ==
    IF item.SUBLOCALITY.has /\ item.SUBLOCALITY.val # <<>>
    THEN item.SUBLOCALITY.val ELSE S_Unknown

UnitsIn(items, name) == Cardinality({i \in 1..Len(items) : AreaOf(items[i]) = name})

C9_ByAreaTopTen ==
    Served("overview")
    => LET by == responses[1].body.byArea
           items == rawData.items
           areas == {AreaOf(items[i]) : i \in 1..Len(items)}
           listed == {by[k].name : k \in 1..Len(by)}
       IN  /\ Len(by) <= 10
           /\ \A k \in 1..(Len(by) - 1) : by[k].count >= by[k + 1].count
           /\ \A k, l \in 1..Len(by) : k # l => by[k].name # by[l].name
           /\ \A k \in 1..Len(by) : by[k].count = UnitsIn(items, by[k].name)
           /\ Cardinality(areas) > 10
                => \A a \in areas \ listed :
                      \A k \in 1..Len(by) : UnitsIn(items, a) <= by[k].count

(***************************************************************************)
(* C10: an authorized /api/properties request gets exactly the first 200   *)
(* (or all, if fewer) of the units that satisfy every supplied filter, in  *)
(* dataset order.  A unit satisfies status when its derived status equals  *)
(* the parameter ignoring case, and area when its subLocality is present   *)
(* and contains the parameter ignoring case; an omitted or empty filter    *)
(* excludes nothing.                                                       *)
(***************************************************************************)
Satisfies(u, q) ==
    /\ (q.status.has /\ q.status.val # <<>>) => EqualIgnoringCase(u.status, q.status.val)
    /\ (q.area.has /\ q.area.val # <<>>)
         => u.subLocality.has /\ ContainsIgnoringCase(u.subLocality.val, q.area.val)

C10_PropertiesFilter ==
    Served("properties")
    => LET units == mapToUnit(rawData.items)
           hits == {i \in 1..Len(units) : Satisfies(units[i], req.query)}
           rank(i) == Cardinality({j \in hits : j <= i})
           body == responses[1].body
       IN  /\ OneResponse(200)
           /\ Len(body) = (IF Cardinality(hits) < 200 THEN Cardinality(hits) ELSE 200)
           /\ \A i \in hits : rank(i) <= 200 => body[rank(i)] = units[i]

C10_Witness ==
    /\ Served("properties") /\ OneResponse(200)
    /\ req.query.status = Str(S_reserved) /\ req.query.area = Str(S_a)
    /\ Len(responses[1].body) = 200
    /\ Len(rawData.items) > 200
    /\ \E i \in 1..200 : ~Satisfies(toUnit(rawData.items[i], i - 1), req.query)

(***************************************************************************)
(* C11: every generated contract whose unit price is a non-negative        *)
(* integer has a payment plan that nearly adds up: downPayment plus the    *)
(* three installment amounts differs from totalPrice by at most 1 and      *)
(* equals it when the price is even; every installment is 'Pending' and    *)
(* the installment numbers are 1, 2, 3 in order.                           *)
(* The amounts are sums of base-2^14 digits, worked out here digit by      *)
(* digit.                                                                  *)
(***************************************************************************)
RECURSIVE CarriedSum(_, _)
\* digit k, before reduction, of the sum of the numbers whose digits are in ds
CarriedSum(ds, k) ==
    ds[1][k] + ds[2][k] + ds[3][k] + ds[4][k]
    + (IF k = 1 THEN 0 ELSE CarriedSum(ds, k - 1) \div Base)

\* what the plan of contract c pays in all
PlanTotal(c) ==
    LET ds == <<DigitsOf(c.downPayment),
                DigitsOf(c.installmentSchedule[1].amount),
                DigitsOf(c.installmentSchedule[2].amount),
                DigitsOf(c.installmentSchedule[3].amount)>>
    IN  [k \in 1..8 |-> CarriedSum(ds, k) % Base]

\* n + 1, for n of fewer than 112 bits
Successor(n) ==
    [k \in 1..8 |-> IF \A j \in 1..(k - 1) : n[j] = Base - 1
                    THEN (n[k] + 1) % Base ELSE n[k]]

IsEven(n) == n[1] % 2 = 0

\* n < 2^51
Below2To51(n) == n[4] < 2 ^ 9 /\ \A k \in 5..8 : n[k] = 0

NearlyAddsUp(c) ==
    LET total == PlanTotal(c)
        price == DigitsOf(c.totalPrice)
    IN  /\ \/ total = price
           \/ total = Successor(price)
           \/ Successor(total) = price
        /\ IsEven(price) => total = price
        /\ Len(c.installmentSchedule) = 3
        /\ \A k \in 1..3 : /\ c.installmentSchedule[k].installmentNo = k
                           /\ c.installmentSchedule[k].status = "Pending"

\* C11 as stated: the plan of every contract with a non-negative integer
\* price nearly adds up
C11_PlanNearlyAddsUp ==
    Served("contracts")
    => /\ OneResponse(200)
       /\ \A i \in 1..Len(responses[1].body) :
             LET c == responses[1].body[i]
             IN  c.totalPrice.has => NearlyAddsUp(c)

\* C11 amended: the plan of every contract with a non-negative integer
\* price below 2^51 nearly adds up: it differs from totalPrice by at most 1,
\* equals it when the price is even, and has installments 1, 2, 3, all
\* 'Pending'
C11_PlanNearlyAddsUpBelow2To51 ==
    Served("contracts")
    => /\ OneResponse(200)
       /\ \A i \in 1..Len(responses[1].body) :
             LET c == responses[1].body[i]
             IN  c.totalPrice.has /\ Below2To51(DigitsOf(c.totalPrice))
                 => NearlyAddsUp(c)

\* contracts were generated for an odd price of 51 bits, whose plan is off
\* by one, and for an even price of 51 bits, whose plan is exact
C11_Witness ==
    /\ Served("contracts") /\ OneResponse(200)
    /\ Len(responses[1].body) = 2
    /\ LET odd == responses[1].body[1]
           even == responses[1].body[2]
       IN  /\ odd.totalPrice.has /\ even.totalPrice.has
           /\ odd.totalPrice.limbs # <<>> /\ even.totalPrice.limbs # <<>>
           /\ Below2To51(DigitsOf(odd.totalPrice))
           /\ Below2To51(DigitsOf(even.totalPrice))
           /\ ~IsEven(DigitsOf(odd.totalPrice))
           /\ IsEven(DigitsOf(even.totalPrice))
           /\ Successor(PlanTotal(odd)) = DigitsOf(odd.totalPrice)
           /\ PlanTotal(even) = DigitsOf(even.totalPrice)

====
